---------------------------- MODULE Spec2Model ----------------------------
(***************************************************************************)
(* Model of the ERD generation tool: db/query.py (fetch_schema),           *)
(* generator/mermaid.py (build_diagram), main.py (CLI main) and            *)
(* src/routers/erd.py (web routes).                                        *)
(*                                                                         *)
(* Text is modelled character by character: a Python str is a sequence of  *)
(* one-character strings, so that lower(), string comparison, join, strip  *)
(* and splitlines are computed, not assumed.                               *)
(***************************************************************************)
EXTENDS Integers, Sequences, FiniteSets, TLC

VARIABLES
    catalog,        \* the database catalog: [tables, fks, indexes]
    args,           \* the parsed command line: [schema, tables]
    schema_filter,  \* fetch_schema argument: None or Some(str)
    table_filter,   \* fetch_schema argument: None or Some(list of str)
    pc,             \* position of the running call
    conn,           \* "none" | "open" | "closed"
    acquired,       \* number of connections acquired by the call
    released,       \* number of conn.close() calls
    queries,        \* the queries executed on the cursor, in order
    tables,         \* dict "schema.table" -> TableInfo (insertion ordered)
    allowed_keys,   \* set(tables.keys())
    fk_rows,        \* rows of the FK query not consumed yet
    fk_seen,        \* rows of the FK query consumed so far (history)
    fk_map,         \* dict constraint_name -> ForeignKeyInfo (insertion ordered)
    result,         \* outcome of fetch_schema: pending / returned / raised
    failure,        \* what the driver raised in this call: None or Some(error)
    caller,         \* who called fetch_schema: "main" | "regenerate" | "none"
    diagram,        \* the caller's local: build_diagram(tables, foreign_keys)
    exit_code,      \* CLI exit status: None while running
    artifact,       \* the output file: NoFile or its text
    response,       \* the last HTTP response of the web routes
    other_map,      \* build_diagram: the same mapping in another insertion order
    other_diagram,  \* build_diagram(other_map, foreign_keys)
    reqs,           \* the regenerate requests of the server: [pc, result, diagram]
    loop,           \* the coroutine running on the event-loop thread: None or Some(r)
    ran_on          \* which thread ran which step of a regenerate request

vars == <<catalog, args, schema_filter, table_filter, pc, conn, acquired, released,
          queries, tables, allowed_keys, fk_rows, fk_seen, fk_map, result,
          failure, caller, diagram, exit_code, artifact, response, other_map,
          other_diagram, reqs, loop, ran_on>>

-----------------------------------------------------------------------------
(* Bounds of the model *)

\* at most this many foreign-key constraints in a catalog
MaxFks == 2
\* at most this many extra unique indexes on the child table dbo.Item
MaxIdx == 2

-----------------------------------------------------------------------------
(* Python values *)

\* Optional[T]: None is the empty tuple, a value v is <<v>>
None == <<>>
Some(v) == <<v>>
IsNone(o) == o = <<>>
Val(o) == o[1]

Range(s) == {s[i] : i \in 1..Len(s)}

\* the grave accent U+0060 (the lexer of the tools rejects it inside a string
\* literal, so the character is written by name)
BT == "<U+0060>"

\* printable ASCII, code points 32..126, in code point order
Ascii == <<" ", "!", "\"", "#", "$", "%", "&", "'", "(", ")", "*", "+", ",",
           "-", ".", "/", "0", "1", "2", "3", "4", "5", "6", "7", "8", "9",
           ":", ";", "<", "=", ">", "?", "@", "A", "B", "C", "D", "E", "F",
           "G", "H", "I", "J", "K", "L", "M", "N", "O", "P", "Q", "R", "S",
           "T", "U", "V", "W", "X", "Y", "Z", "[", "\\", "]", "^", "_", BT,
           "a", "b", "c", "d", "e", "f", "g", "h", "i", "j", "k", "l", "m",
           "n", "o", "p", "q", "r", "s", "t", "u", "v", "w", "x", "y", "z",
           "{", "|", "}", "~">>

\* the newline character
NL == "\n"

\* ord(c)
OrdTable == [c \in Range(Ascii) |-> 31 + (CHOOSE i \in 1..Len(Ascii) : Ascii[i] = c)]
Ord(c) == IF c = NL THEN 10 ELSE OrdTable[c]

\* str.lower() on one character and on a str
LowerChar(c) == IF c # NL /\ Ord(c) >= 65 /\ Ord(c) <= 90 THEN Ascii[Ord(c) + 32 - 31] ELSE c
Lower(s) == [i \in 1..Len(s) |-> LowerChar(s[i])]

\* a < b for Python str: lexicographic by code point
RECURSIVE StrLess(_, _)
StrLess(a, b) ==
    IF b = <<>> THEN FALSE
    ELSE IF a = <<>> THEN TRUE
    ELSE IF Head(a) # Head(b) THEN Ord(Head(a)) < Ord(Head(b))
    ELSE StrLess(Tail(a), Tail(b))

\* sep.join(parts)
RECURSIVE Join(_, _)
Join(sep, parts) ==
    IF parts = <<>> THEN <<>>
    ELSE IF Len(parts) = 1 THEN parts[1]
    ELSE parts[1] \o sep \o Join(sep, Tail(parts))

\* sorted(S) for a set of str
RECURSIVE SortedStrs(_)
SortedStrs(S) ==
    IF S = {} THEN <<>>
    ELSE LET m == CHOOSE x \in S : \A y \in S : y = x \/ StrLess(x, y)
         IN  <<m>> \o SortedStrs(S \ {m})

\* dict operations on an insertion-ordered dict, a sequence of [key, value]
DictKeys(d) == [i \in 1..Len(d) |-> d[i].key]
DictValues(d) == [i \in 1..Len(d) |-> d[i].value]
DictHas(d, k) == \E i \in 1..Len(d) : d[i].key = k
DictGet(d, k) == d[CHOOSE i \in 1..Len(d) : d[i].key = k].value
DictSet(d, k, v) ==
    IF DictHas(d, k)
    THEN [i \in 1..Len(d) |-> IF d[i].key = k THEN [key |-> k, value |-> v] ELSE d[i]]
    ELSE Append(d, [key |-> k, value |-> v])

-----------------------------------------------------------------------------
(* Names used in the catalogs of the model *)

s_dbo == <<"d", "b", "o">>
s_hr == <<"h", "r">>
s_Item == <<"I", "t", "e", "m">>
s_tag == <<"t", "a", "g">>
s_id == <<"i", "d">>
s_a == <<"a">>
s_b == <<"b">>
s_k == <<"k">>
s_int == <<"i", "n", "t">>
s_FK_a == <<"F", "K", "_", "a">>
s_FK_b == <<"F", "K", "_", "b">>
s_FK_c == <<"F", "K", "_", "c">>
s_ITEM == <<"I", "T", "E", "M">>
s_nosuch == <<"n", "o">>

-----------------------------------------------------------------------------
(* The database catalog (sys.tables, sys.columns, sys.indexes,             *)
(* sys.foreign_keys) and the three catalog queries                         *)

\* a catalog column and the tables of the model's catalogs
CatColumn(n, nullable) == [name |-> n, type |-> s_int, nullable |-> nullable]

T_dbo_Item == [schema |-> s_dbo, name |-> s_Item, pk |-> {s_id},
               columns |-> <<CatColumn(s_id, FALSE), CatColumn(s_b, TRUE), CatColumn(s_a, FALSE)>>]
T_dbo_tag == [schema |-> s_dbo, name |-> s_tag, pk |-> {s_id},
              columns |-> <<CatColumn(s_id, FALSE), CatColumn(s_k, TRUE)>>]
T_hr_Item == [schema |-> s_hr, name |-> s_Item, pk |-> {},
              columns |-> <<CatColumn(s_id, FALSE)>>]

TableUniverse == {T_dbo_Item, T_dbo_tag, T_hr_Item}

\* a foreign-key constraint: child (parent_object) columns paired with the
\* referenced columns in constraint_column_id order
CatFk(n, t, r, pairs) ==
    [name |-> n, schema |-> t.schema, table |-> t.name,
     ref_schema |-> r.schema, ref_table |-> r.name, cols |-> pairs]
Pair(f, t) == [from |-> f, to |-> t]

\* composite, declared in the order (b, a); same schema
FK_1 == CatFk(s_FK_a, T_dbo_Item, T_dbo_tag, <<Pair(s_b, s_id), Pair(s_a, s_k)>>)
\* same constraint name as FK_1 in another schema; referenced table in dbo
FK_2 == CatFk(s_FK_a, T_hr_Item, T_dbo_tag, <<Pair(s_id, s_id)>>)
\* references a table of another schema
FK_3 == CatFk(s_FK_b, T_dbo_tag, T_hr_Item, <<Pair(s_k, s_id)>>)
\* self reference
FK_4 == CatFk(s_FK_c, T_dbo_Item, T_dbo_Item, <<Pair(s_a, s_id)>>)

FkUniverse == {FK_1, FK_2, FK_3, FK_4}

\* the unique indexes that may exist on dbo.Item besides its primary key
IndexUniverse == {{s_a}, {s_b}, {s_a, s_b}, {s_a, s_b, s_id}}

HasTable(ts, sch, n) == \E t \in ts : t.schema = sch /\ t.name = n

\* the catalogs of the model: consistent (a constraint's tables exist, a
\* constraint name is unique within its schema) and within the bounds
Catalogs ==
    {c \in [tables : SUBSET TableUniverse, fks : SUBSET FkUniverse, indexes : SUBSET IndexUniverse] :
        /\ Cardinality(c.fks) <= MaxFks
        /\ Cardinality(c.indexes) <= MaxIdx
        /\ \A f \in c.fks : HasTable(c.tables, f.schema, f.table)
                            /\ HasTable(c.tables, f.ref_schema, f.ref_table)
        /\ \A f, g \in c.fks : (f.name = g.name /\ f.schema = g.schema) => f = g
        /\ (c.indexes # {} => T_dbo_Item \in c.tables)}

\* sys.indexes with is_unique = 1 on a table, each as its set of columns
UniqueIndexes(cat, sch, n) ==
    {t.pk : t \in {u \in cat.tables : u.schema = sch /\ u.name = n /\ u.pk # {}}}
    \cup (IF sch = s_dbo /\ n = s_Item THEN cat.indexes ELSE {})

\* the WHERE clause shared by the three queries: ? IS NULL OR s.name = ?
SchemaMatches(sf, sch) == IsNone(sf) \/ sch = Val(sf)

\* ORDER BY on names: the comparison of the database's collation, here a
\* case-insensitive one; names equal under it tie
SqlLess(a, b) == StrLess(Lower(a), Lower(b))
SqlEq(a, b) == Lower(a) = Lower(b)

\* every sequence of the rows S that respects the strict order "before"
\* (a set of pairs); rows that tie may come in any order
RECURSIVE RowsInOrder(_, _)
RowsInOrder(S, before) ==
    IF S = {} THEN {<<>>}
    ELSE UNION {{<<m>> \o rest : rest \in RowsInOrder(S \ {m}, before)} :
                m \in {x \in S : \A y \in S : <<y, x>> \notin before}}

\* _TABLE_SQL
TableRowSet(cat, sf) ==
    {[schema_name |-> t.schema, table_name |-> t.name] :
        t \in {u \in cat.tables : SchemaMatches(sf, u.schema)}}
TableQuery(cat, sf) ==
    LET S == TableRowSet(cat, sf)
        before == {p \in S \X S :
                     \/ SqlLess(p[1].schema_name, p[2].schema_name)
                     \/ /\ SqlEq(p[1].schema_name, p[2].schema_name)
                        /\ SqlLess(p[1].table_name, p[2].table_name)}
    IN  RowsInOrder(S, before)

\* _COLUMN_SQL
ColumnRowSet(cat, sf) ==
    UNION {{[schema_name |-> t.schema, table_name |-> t.name,
             column_id |-> i,
             column_name |-> t.columns[i].name,
             type_name |-> t.columns[i].type,
             is_nullable |-> IF t.columns[i].nullable THEN 1 ELSE 0,
             is_primary_key |-> IF t.columns[i].name \in t.pk THEN 1 ELSE 0] :
                i \in 1..Len(t.columns)} :
           t \in {u \in cat.tables : SchemaMatches(sf, u.schema)}}
ColumnQuery(cat, sf) ==
    LET S == ColumnRowSet(cat, sf)
        before == {p \in S \X S :
                     \/ SqlLess(p[1].schema_name, p[2].schema_name)
                     \/ /\ SqlEq(p[1].schema_name, p[2].schema_name)
                        /\ SqlLess(p[1].table_name, p[2].table_name)
                     \/ /\ SqlEq(p[1].schema_name, p[2].schema_name)
                        /\ SqlEq(p[1].table_name, p[2].table_name)
                        /\ p[1].column_id < p[2].column_id}
    IN  RowsInOrder(S, before)

\* the referencing (child) columns of a constraint
FkColumns(f) == {f.cols[j].from : j \in 1..Len(f.cols)}

\* the CASE WHEN EXISTS ... of _FK_SQL, for the row of column i of constraint f
RowIsUnique(cat, f, i) ==
    IF \E ui \in UniqueIndexes(cat, f.schema, f.table) :
            /\ f.cols[i].from \in ui
            /\ ~ \E extra \in ui : extra \notin FkColumns(f)
    THEN 1 ELSE 0

\* _FK_SQL
FkRowSet(cat, sf) ==
    UNION {{[constraint_name |-> f.name,
             from_schema |-> f.schema, from_table |-> f.table,
             key_ordinal |-> i,
             from_column |-> f.cols[i].from,
             to_schema |-> f.ref_schema, to_table |-> f.ref_table,
             to_column |-> f.cols[i].to,
             is_unique |-> RowIsUnique(cat, f, i)] : i \in 1..Len(f.cols)} :
           f \in {g \in cat.fks : SchemaMatches(sf, g.schema)}}
FkQuery(cat, sf) ==
    LET S == FkRowSet(cat, sf)
        before == {p \in S \X S :
                     \/ SqlLess(p[1].constraint_name, p[2].constraint_name)
                     \/ /\ SqlEq(p[1].constraint_name, p[2].constraint_name)
                        /\ p[1].key_ordinal < p[2].key_ordinal}
    IN  RowsInOrder(S, before)

-----------------------------------------------------------------------------
(* db/query.py: the dataclasses and the assembly steps of fetch_schema     *)

\* bool(x) of a value the driver returns for an integer or a bit column
Bool(x) == x # 0

\* the truth value of an Optional[list]: None and [] are both false
Truthy(o) == ~IsNone(o) /\ Val(o) # <<>>

ColumnInfo(n, ty, nullable, pk) ==
    [name |-> n, data_type |-> ty, is_nullable |-> nullable,
     is_primary_key |-> pk, is_foreign_key |-> FALSE]

TableInfo(n, sch) == [name |-> n, schema |-> sch, columns |-> <<>>]

\* f"{schema}.{table}"
Key(sch, n) == sch \o <<".">> \o n

\* table_rows after the allow-list of lines 205-207
FilterTableRows(rows, tf) ==
    IF Truthy(tf)
    THEN LET filter_set == {Lower(n) : n \in Range(Val(tf))}
             Keep(r) == Lower(r.table_name) \in filter_set
         IN  SelectSeq(rows, Keep)
    ELSE rows

\* the dict comprehension of lines 209-214
RECURSIVE BuildTables(_, _)
BuildTables(d, rows) ==
    IF rows = <<>> THEN d
    ELSE LET r == Head(rows)
         IN  BuildTables(DictSet(d, Key(r.schema_name, r.table_name),
                                 TableInfo(r.table_name, r.schema_name)),
                         Tail(rows))

\* the loop of lines 219-230
RECURSIVE AddColumns(_, _)
AddColumns(d, rows) ==
    IF rows = <<>> THEN d
    ELSE LET row == Head(rows)
             key == Key(row.schema_name, row.table_name)
         IN  IF ~DictHas(d, key)
             THEN AddColumns(d, Tail(rows))
             ELSE LET t == DictGet(d, key)
                      col == ColumnInfo(row.column_name, row.type_name,
                                        Bool(row.is_nullable), Bool(row.is_primary_key))
                  IN  AddColumns(DictSet(d, key, [t EXCEPT !.columns = Append(@, col)]),
                                 Tail(rows))

\* the test of line 239: the row is skipped
SkipFkRow(row, tf, allowed) ==
    /\ Truthy(tf)
    /\ \/ Key(row.from_schema, row.from_table) \notin allowed
       \/ Key(row.to_schema, row.to_table) \notin allowed

\* AddFkRow without the lookup of line 242: every row makes a new ForeignKeyInfo
AddFkRowNoLookup(m, row) ==
    DictSet(m, row.constraint_name,
            [constraint_name |-> row.constraint_name,
             from_table |-> row.from_table,
             from_schema |-> row.from_schema,
             from_columns |-> <<row.from_column>>,
             to_table |-> row.to_table,
             to_schema |-> row.to_schema,
             to_columns |-> <<row.to_column>>,
             is_unique |-> Bool(row.is_unique)])

\* lines 241-254: look up or create the ForeignKeyInfo, append the column pair
AddFkRow(m, row) ==
    LET cname == row.constraint_name
        m1 == IF ~DictHas(m, cname)
              THEN DictSet(m, cname,
                           [constraint_name |-> cname,
                            from_table |-> row.from_table,
                            from_schema |-> row.from_schema,
                            from_columns |-> <<>>,
                            to_table |-> row.to_table,
                            to_schema |-> row.to_schema,
                            to_columns |-> <<>>,
                            is_unique |-> Bool(row.is_unique)])
              ELSE m
        fk == DictGet(m1, cname)
    IN  DictSet(m1, cname, [fk EXCEPT !.from_columns = Append(@, row.from_column),
                                      !.to_columns = Append(@, row.to_column)])

\* lines 257-260: back-fill is_foreign_key on the source column
BackFill(d, row) ==
    LET from_key == Key(row.from_schema, row.from_table)
    IN  IF DictHas(d, from_key)
        THEN LET t == DictGet(d, from_key)
                 cols == [i \in 1..Len(t.columns) |->
                            IF t.columns[i].name = row.from_column
                            THEN [t.columns[i] EXCEPT !.is_foreign_key = TRUE]
                            ELSE t.columns[i]]
             IN  DictSet(d, from_key, [t EXCEPT !.columns = cols])
        ELSE d

Pending == [kind |-> "pending"]
Returned(t, f) == [kind |-> "returned", tables |-> t, foreign_keys |-> f]
Raised(e) == [kind |-> "raised", exc |-> e]

\* the errors the driver may raise (pyodbc.Error with its SQLSTATE)
DriverErrors == {"08001", "42000"}

-----------------------------------------------------------------------------
(* fetch_schema, step by step *)

\* line 197: conn = get_connection()
Connect ==
    /\ pc = "connect"
    /\ conn' = "open"
    /\ acquired' = acquired + 1
    /\ pc' = "cursor"
    /\ UNCHANGED <<catalog, args, schema_filter, table_filter, released, queries, tables,
                   allowed_keys, fk_rows, fk_seen, fk_map, result, failure, caller,
                   diagram, exit_code, artifact, response, other_map, other_diagram,
                   reqs, loop, ran_on>>

\* line 197 raising: outside the try, nothing to close
ConnectFails ==
    /\ pc = "connect"
    /\ \E e \in DriverErrors :
         /\ failure' = Some(e)
         /\ result' = Raised(e)
    /\ pc' = "fetch_done"
    /\ UNCHANGED <<catalog, args, schema_filter, table_filter, conn, acquired, released,
                   queries, tables, allowed_keys, fk_rows, fk_seen, fk_map, caller,
                   diagram, exit_code, artifact, response, other_map, other_diagram,
                   reqs, loop, ran_on>>

\* line 199: cursor = conn.cursor()
OpenCursor ==
    /\ pc = "cursor"
    /\ pc' = "q_tables"
    /\ UNCHANGED <<catalog, args, schema_filter, table_filter, conn, acquired, released,
                   queries, tables, allowed_keys, fk_rows, fk_seen, fk_map, result,
                   failure, caller, diagram, exit_code, artifact, response, other_map,
                   other_diagram,
                   reqs, loop, ran_on>>

\* line 199 raising, inside the try: the finally clause is next
OpenCursorFails ==
    /\ pc = "cursor"
    /\ \E e \in DriverErrors :
         /\ failure' = Some(e)
         /\ result' = Raised(e)
    /\ pc' = "finally"
    /\ UNCHANGED <<catalog, args, schema_filter, table_filter, conn, acquired, released,
                   queries, tables, allowed_keys, fk_rows, fk_seen, fk_map, caller,
                   diagram, exit_code, artifact, response, other_map, other_diagram,
                   reqs, loop, ran_on>>

\* lines 201-215: step 1
QueryTables ==
    /\ pc = "q_tables"
    /\ \E rows \in TableQuery(catalog, schema_filter) :
         /\ tables' = BuildTables(<<>>, FilterTableRows(rows, table_filter))
         /\ allowed_keys' = Range(DictKeys(tables'))
    /\ queries' = Append(queries, "tables")
    /\ pc' = "q_columns"
    /\ UNCHANGED <<catalog, args, schema_filter, table_filter, conn, acquired, released,
                   fk_rows, fk_seen, fk_map, result, failure, caller, diagram,
                   exit_code, artifact, response, other_map, other_diagram,
                   reqs, loop, ran_on>>

\* lines 217-230: step 2
QueryColumns ==
    /\ pc = "q_columns"
    /\ \E rows \in ColumnQuery(catalog, schema_filter) :
         tables' = AddColumns(tables, rows)
    /\ queries' = Append(queries, "columns")
    /\ pc' = "q_fks"
    /\ UNCHANGED <<catalog, args, schema_filter, table_filter, conn, acquired, released,
                   allowed_keys, fk_rows, fk_seen, fk_map, result, failure, caller,
                   diagram, exit_code, artifact, response, other_map, other_diagram,
                   reqs, loop, ran_on>>

\* lines 233-235: execute the FK query, fetchall
QueryFks ==
    /\ pc = "q_fks"
    /\ \E rows \in FkQuery(catalog, schema_filter) : fk_rows' = rows
    /\ fk_seen' = <<>>
    /\ fk_map' = <<>>
    /\ queries' = Append(queries, "fks")
    /\ pc' = "fk_loop"
    /\ UNCHANGED <<catalog, args, schema_filter, table_filter, conn, acquired, released,
                   tables, allowed_keys, result, failure, caller, diagram, exit_code,
                   artifact, response, other_map, other_diagram,
                   reqs, loop, ran_on>>

\* lines 235-260: one iteration of the loop over the FK rows
ProcessFkRow ==
    /\ pc = "fk_loop"
    /\ fk_rows # <<>>
    /\ LET row == Head(fk_rows)
       IN  IF SkipFkRow(row, table_filter, allowed_keys)
           THEN UNCHANGED <<fk_map, tables>>
           ELSE /\ fk_map' = AddFkRow(fk_map, row)
                /\ tables' = BackFill(tables, row)
    /\ fk_rows' = Tail(fk_rows)
    /\ fk_seen' = Append(fk_seen, Head(fk_rows))
    /\ UNCHANGED <<catalog, args, schema_filter, table_filter, pc, conn, acquired, released,
                   queries, allowed_keys, result, failure, caller, diagram, exit_code,
                   artifact, response, other_map, other_diagram,
                   reqs, loop, ran_on>>

\* line 262: return tables, list(fk_map.values()); the finally clause is next
ReturnSnapshot ==
    /\ pc = "fk_loop"
    /\ fk_rows = <<>>
    /\ result' = Returned(tables, DictValues(fk_map))
    /\ pc' = "finally"
    /\ UNCHANGED <<catalog, args, schema_filter, table_filter, conn, acquired, released,
                   queries, tables, allowed_keys, fk_rows, fk_seen, fk_map, failure,
                   caller, diagram, exit_code, artifact, response, other_map,
                   other_diagram,
                   reqs, loop, ran_on>>

\* QueryFails without the finally clause: the exception leaves the call at once
QueryFailsNoFinally ==
    /\ pc \in {"q_tables", "q_columns", "q_fks"}
    /\ queries' = Append(queries, CASE pc = "q_tables" -> "tables"
                                    [] pc = "q_columns" -> "columns"
                                    [] OTHER -> "fks")
    /\ \E e \in DriverErrors :
         /\ failure' = Some(e)
         /\ result' = Raised(e)
    /\ pc' = "fetch_done"
    /\ UNCHANGED <<catalog, args, schema_filter, table_filter, conn, acquired, released,
                   tables, allowed_keys, fk_rows, fk_seen, fk_map, caller, diagram,
                   exit_code, artifact, response, other_map, other_diagram,
                   reqs, loop, ran_on>>

\* QueryFails with the error swallowed: what was built so far is returned
QueryFailsReturnsPartial ==
    /\ pc \in {"q_tables", "q_columns", "q_fks"}
    /\ queries' = Append(queries, CASE pc = "q_tables" -> "tables"
                                    [] pc = "q_columns" -> "columns"
                                    [] OTHER -> "fks")
    /\ \E e \in DriverErrors : failure' = Some(e)
    /\ result' = Returned(tables, DictValues(fk_map))
    /\ pc' = "finally"
    /\ UNCHANGED <<catalog, args, schema_filter, table_filter, conn, acquired, released,
                   tables, allowed_keys, fk_rows, fk_seen, fk_map, caller, diagram,
                   exit_code, artifact, response, other_map, other_diagram,
                   reqs, loop, ran_on>>

\* cursor.execute or fetchall raising at lines 202-203, 218-219 or 233-235
QueryFails ==
    /\ pc \in {"q_tables", "q_columns", "q_fks"}
    /\ queries' = Append(queries, CASE pc = "q_tables" -> "tables"
                                    [] pc = "q_columns" -> "columns"
                                    [] OTHER -> "fks")
    /\ \E e \in DriverErrors :
         /\ failure' = Some(e)
         /\ result' = Raised(e)
    /\ pc' = "finally"
    /\ UNCHANGED <<catalog, args, schema_filter, table_filter, conn, acquired, released,
                   tables, allowed_keys, fk_rows, fk_seen, fk_map, caller, diagram,
                   exit_code, artifact, response, other_map, other_diagram,
                   reqs, loop, ran_on>>

\* lines 263-264: finally: conn.close(); then the return or the raise completes
Close ==
    /\ pc = "finally"
    /\ conn' = "closed"
    /\ released' = released + 1
    /\ pc' = "fetch_done"
    /\ UNCHANGED <<catalog, args, schema_filter, table_filter, acquired, queries, tables,
                   allowed_keys, fk_rows, fk_seen, fk_map, result, failure, caller,
                   diagram, exit_code, artifact, response, other_map, other_diagram,
                   reqs, loop, ran_on>>

FetchSchema ==
    \/ Connect
    \/ ConnectFails
    \/ OpenCursor
    \/ OpenCursorFails
    \/ QueryTables
    \/ QueryColumns
    \/ QueryFks
    \/ ProcessFkRow
    \/ ReturnSnapshot
    \/ QueryFails
    \/ Close

-----------------------------------------------------------------------------
(* generator/mermaid.py *)

s_fence_open == <<BT, BT, BT, "m", "e", "r", "m", "a", "i", "d">>
s_fence == <<BT, BT, BT>>
s_erDiagram == <<"e", "r", "D", "i", "a", "g", "r", "a", "m">>
s_PK == <<"P", "K">>
s_FK == <<"F", "K">>
s_nullable == <<"\"", "n", "u", "l", "l", "a", "b", "l", "e", "\"">>
s_one_to_one == <<"|", "|", "-", "-", "|", "|">>
s_one_to_many == <<"|", "|", "-", "-", "o", "{">>
s_indent4 == <<" ", " ", " ", " ">>
s_indent8 == s_indent4 \o s_indent4

\* _column_line
ColumnLine(col) ==
    LET parts == <<col.data_type, col.name>>
                 \o (IF col.is_primary_key THEN <<s_PK>> ELSE <<>>)
                 \o (IF col.is_foreign_key THEN <<s_FK>> ELSE <<>>)
                 \o (IF col.is_nullable THEN <<s_nullable>> ELSE <<>>)
    IN  s_indent8 \o Join(<<" ">>, parts)

\* _relationship_notation
RelationshipNotation(fk) == IF fk.is_unique THEN s_one_to_one ELSE s_one_to_many

\* _fk_label
FkLabel(fk) == Join(<<",", " ">>, fk.from_columns)

\* EntityOrder without sorted(): the dict's own iteration order
EntityOrderInsertion(d) == DictKeys(d)

\* the keys in the order build_diagram visits them: sorted(tables.keys())
EntityOrder(d) == SortedStrs(Range(DictKeys(d)))

\* lines 66-71: the entity block of one table
EntityBlock(table) ==
    <<s_indent4 \o table.name \o <<" ", "{">>>>
    \o [i \in 1..Len(table.columns) |-> ColumnLine(table.columns[i])]
    \o <<s_indent4 \o <<"}">>>>

RECURSIVE EntityBlocks(_, _)
EntityBlocks(d, keys) ==
    IF keys = <<>> THEN <<>>
    ELSE EntityBlock(DictGet(d, Head(keys))) \o EntityBlocks(d, Tail(keys))

\* the relationship line with the endpoints exchanged: child first
RelationshipLineChildFirst(fk) ==
    s_indent4 \o fk.from_table \o <<" ">> \o RelationshipNotation(fk) \o <<" ">>
    \o fk.to_table \o <<" ", ":", " ", "\"">> \o FkLabel(fk) \o <<"\"">>

\* line 80: one relationship line
RelationshipLine(fk) ==
    s_indent4 \o fk.to_table \o <<" ">> \o RelationshipNotation(fk) \o <<" ">>
    \o fk.from_table \o <<" ", ":", " ", "\"">> \o FkLabel(fk) \o <<"\"">>

\* build_diagram: the lines, then "\n".join(lines)
DiagramLines(d, foreign_keys) ==
    <<s_fence_open, s_erDiagram>>
    \o EntityBlocks(d, EntityOrder(d))
    \o <<<<>>>>
    \o [i \in 1..Len(foreign_keys) |-> RelationshipLine(foreign_keys[i])]
    \o <<s_fence>>

BuildDiagram(d, foreign_keys) == Join(<<NL>>, DiagramLines(d, foreign_keys))

-----------------------------------------------------------------------------
(* The output file and src/routers/erd.py: _read_diagram *)

\* the file does not exist
NoFile == [exists |-> FALSE]
File(text) == [exists |-> TRUE, text |-> text]

\* what the writers put in the file: the diagram and a newline
ArtifactOf(d) == File(d \o <<NL>>)

IsSpace(c) == c \in {" ", NL}

\* str.strip()
RECURSIVE LStrip(_)
LStrip(t) == IF t # <<>> /\ IsSpace(Head(t)) THEN LStrip(Tail(t)) ELSE t
RECURSIVE RStrip(_)
RStrip(t) == IF t # <<>> /\ IsSpace(t[Len(t)]) THEN RStrip(SubSeq(t, 1, Len(t) - 1)) ELSE t
Strip(t) == RStrip(LStrip(t))

\* str.splitlines(): no last empty line after a final newline
RECURSIVE SplitLines(_)
SplitLines(t) ==
    IF t = <<>> THEN <<>>
    ELSE LET P == {i \in 1..Len(t) : t[i] = NL}
         IN  IF P = {} THEN <<t>>
             ELSE LET i == CHOOSE j \in P : \A k \in P : j <= k
                  IN  <<SubSeq(t, 1, i - 1)>> \o SplitLines(SubSeq(t, i + 1, Len(t)))

\* str.startswith
StartsWith(t, prefix) == Len(t) >= Len(prefix) /\ SubSeq(t, 1, Len(prefix)) = prefix

\* _read_diagram: None when the file does not exist
ReadDiagram(file) ==
    IF ~file.exists THEN None
    ELSE LET lines0 == SplitLines(Strip(file.text))
             lines1 == IF lines0 # <<>> /\ StartsWith(lines0[1], s_fence)
                       THEN Tail(lines0) ELSE lines0
             lines2 == IF lines1 # <<>> /\ Strip(lines1[Len(lines1)]) = s_fence
                       THEN SubSeq(lines1, 1, Len(lines1) - 1) ELSE lines1
         IN  Some(Join(<<NL>>, lines2))

-----------------------------------------------------------------------------
(* main.py: the CLI *)

\* str.split(sep) for a one-character separator
RECURSIVE SplitOnFrom(_, _, _)
SplitOnFrom(t, sep, cur) ==
    IF t = <<>> THEN <<cur>>
    ELSE IF Head(t) = sep THEN <<cur>> \o SplitOnFrom(Tail(t), sep, <<>>)
    ELSE SplitOnFrom(Tail(t), sep, Append(cur, Head(t)))
SplitOn(t, sep) == SplitOnFrom(t, sep, <<>>)

\* lines 53-57: the table filter from --tables
ParseTables(arg) ==
    IF ~IsNone(arg) /\ Val(arg) # <<>>
    THEN LET pieces == SplitOn(Val(arg), ",")
             stripped == [i \in 1..Len(pieces) |-> Strip(pieces[i])]
             NonEmpty(x) == x # <<>>
         IN  Some(SelectSeq(stripped, NonEmpty))
    ELSE None

\* lines 50-57: parse_args has returned; the filters of the call
MainParseArgs ==
    /\ pc = "main"
    /\ schema_filter' = args.schema
    /\ table_filter' = ParseTables(args.tables)
    /\ pc' = "connect"
    /\ UNCHANGED <<catalog, args, conn, acquired, released, queries, tables,
                   allowed_keys, fk_rows, fk_seen, fk_map, result, failure, caller,
                   diagram, exit_code, artifact, response, other_map, other_diagram,
                   reqs, loop, ran_on>>

\* MainFetchFailed with the output file opened for writing before the
\* introspection: the failing run leaves it truncated
MainFetchFailedTruncates ==
    /\ pc = "fetch_done" /\ caller = "main"
    /\ result.kind = "raised"
    /\ artifact' = File(<<>>)
    /\ exit_code' = Some(1)
    /\ pc' = "exited"
    /\ UNCHANGED <<catalog, args, schema_filter, table_filter, conn, acquired,
                   released, queries, tables, allowed_keys, fk_rows, fk_seen, fk_map,
                   result, failure, caller, diagram, response, other_map,
                   other_diagram, reqs, loop, ran_on>>

\* lines 65-67: except Exception: sys.exit(1)
MainFetchFailed ==
    /\ pc = "fetch_done" /\ caller = "main"
    /\ result.kind = "raised"
    /\ exit_code' = Some(1)
    /\ pc' = "exited"
    /\ UNCHANGED <<catalog, args, schema_filter, table_filter, conn, acquired,
                   released, queries, tables, allowed_keys, fk_rows, fk_seen, fk_map,
                   result, failure, caller, diagram, artifact, response, other_map,
                   other_diagram,
                   reqs, loop, ran_on>>

\* MainNoTables without the exit: the empty diagram is written, exit status 0
MainNoTablesExitsZero ==
    /\ pc = "fetch_done" /\ caller = "main"
    /\ result.kind = "returned"
    /\ result.tables = <<>>
    /\ diagram' = BuildDiagram(result.tables, result.foreign_keys)
    /\ artifact' = ArtifactOf(diagram')
    /\ exit_code' = Some(0)
    /\ pc' = "exited"
    /\ UNCHANGED <<catalog, args, schema_filter, table_filter, conn, acquired,
                   released, queries, tables, allowed_keys, fk_rows, fk_seen, fk_map,
                   result, failure, caller, response, other_map, other_diagram,
                   reqs, loop, ran_on>>

\* lines 69-71: if not tables: sys.exit(1)
MainNoTables ==
    /\ pc = "fetch_done" /\ caller = "main"
    /\ result.kind = "returned"
    /\ result.tables = <<>>
    /\ exit_code' = Some(1)
    /\ pc' = "exited"
    /\ UNCHANGED <<catalog, args, schema_filter, table_filter, conn, acquired,
                   released, queries, tables, allowed_keys, fk_rows, fk_seen, fk_map,
                   result, failure, caller, diagram, artifact, response, other_map,
                   other_diagram,
                   reqs, loop, ran_on>>

\* line 75: diagram = build_diagram(tables, foreign_keys)
MainRender ==
    /\ pc = "fetch_done" /\ caller = "main"
    /\ result.kind = "returned"
    /\ result.tables # <<>>
    /\ diagram' = BuildDiagram(result.tables, result.foreign_keys)
    /\ pc' = "write"
    /\ UNCHANGED <<catalog, args, schema_filter, table_filter, conn, acquired,
                   released, queries, tables, allowed_keys, fk_rows, fk_seen, fk_map,
                   result, failure, caller, exit_code, artifact, response, other_map,
                   other_diagram,
                   reqs, loop, ran_on>>

\* lines 77-84: the file is written; falling off main exits with 0
MainWrite ==
    /\ pc = "write" /\ caller = "main"
    /\ artifact' = ArtifactOf(diagram)
    /\ exit_code' = Some(0)
    /\ pc' = "exited"
    /\ UNCHANGED <<catalog, args, schema_filter, table_filter, conn, acquired,
                   released, queries, tables, allowed_keys, fk_rows, fk_seen, fk_map,
                   result, failure, caller, diagram, response, other_map,
                   other_diagram,
                   reqs, loop, ran_on>>

\* lines 78-80: os.makedirs or open raising OSError: an uncaught exception,
\* the interpreter exits with 1
MainWriteFails ==
    /\ pc = "write" /\ caller = "main"
    /\ exit_code' = Some(1)
    /\ pc' = "exited"
    /\ UNCHANGED <<catalog, args, schema_filter, table_filter, conn, acquired,
                   released, queries, tables, allowed_keys, fk_rows, fk_seen, fk_map,
                   result, failure, caller, diagram, artifact, response, other_map,
                   other_diagram,
                   reqs, loop, ran_on>>

Main ==
    \/ MainParseArgs
    \/ MainFetchFailed
    \/ MainNoTables
    \/ MainRender
    \/ MainWrite
    \/ MainWriteFails

-----------------------------------------------------------------------------
(* One run of the CLI against one catalog *)

\* the values of --schema
SchemaArgs == {None, Some(s_dbo), Some(s_hr)}

\* the values of --tables: absent, ",", "ITEM", "tag, Item", "no"
TablesArgs == {None,
               Some(<<",">>),
               Some(s_ITEM),
               Some(s_tag \o <<",", " ">> \o s_Item),
               Some(s_nosuch)}

\* a diagram left in the output file by an earlier run
OldDiagram == BuildDiagram(<<>>, <<>>)

Init ==
    /\ catalog \in Catalogs
    /\ args \in [schema : SchemaArgs, tables : TablesArgs]
    /\ schema_filter = None
    /\ table_filter = None
    /\ pc = "main"
    /\ caller = "main"
    /\ conn = "none"
    /\ acquired = 0
    /\ released = 0
    /\ queries = <<>>
    /\ tables = <<>>
    /\ allowed_keys = {}
    /\ fk_rows = <<>>
    /\ fk_seen = <<>>
    /\ fk_map = <<>>
    /\ result = Pending
    /\ failure = None
    /\ diagram = <<>>
    /\ exit_code = None
    /\ artifact \in {NoFile, ArtifactOf(OldDiagram)}
    /\ response = None
    /\ other_map = <<>>
    /\ other_diagram = <<>>
    /\ reqs = <<>>
    /\ loop = None
    /\ ran_on = {}

Next == FetchSchema \/ Main

Spec == Init /\ [][Next]_vars

-----------------------------------------------------------------------------
(* build_diagram called on the same mapping in two insertion orders *)

\* every insertion order of the entries of the set S
RECURSIVE Orders(_)
Orders(S) ==
    IF S = {} THEN {<<>>}
    ELSE UNION {{<<e>> \o rest : rest \in Orders(S \ {e})} : e \in S}

\* the entries "schema.table" -> TableInfo the render inputs are made of
RenderColumn(n, nullable, pk, fk) ==
    [name |-> n, data_type |-> s_int, is_nullable |-> nullable,
     is_primary_key |-> pk, is_foreign_key |-> fk]
RenderEntry(sch, n, cols) ==
    [key |-> Key(sch, n), value |-> [name |-> n, schema |-> sch, columns |-> cols]]
RenderEntries ==
    {RenderEntry(s_dbo, s_Item, <<RenderColumn(s_id, FALSE, TRUE, FALSE),
                                  RenderColumn(s_a, TRUE, FALSE, TRUE)>>),
     RenderEntry(s_dbo, s_tag, <<RenderColumn(s_id, FALSE, TRUE, TRUE)>>),
     RenderEntry(s_hr, s_Item, <<>>)}

RenderFk(n, from, to, cols, unique) ==
    [constraint_name |-> n, from_table |-> from, from_schema |-> s_dbo,
     from_columns |-> cols, to_table |-> to, to_schema |-> s_dbo,
     to_columns |-> cols, is_unique |-> unique]
RenderFkLists ==
    LET f1 == RenderFk(s_FK_a, s_Item, s_tag, <<s_b, s_a>>, FALSE)
        f2 == RenderFk(s_FK_b, s_tag, s_Item, <<s_id>>, TRUE)
    IN  {<<>>, <<f1>>, <<f1, f2>>, <<f2, f1>>}

InitRender ==
    /\ catalog = [tables |-> {}, fks |-> {}, indexes |-> {}]
    /\ args = [schema |-> None, tables |-> None]
    /\ schema_filter = None
    /\ table_filter = None
    /\ pc = "render"
    /\ caller = "none"
    /\ conn = "none"
    /\ acquired = 0
    /\ released = 0
    /\ queries = <<>>
    /\ tables = <<>>
    /\ allowed_keys = {}
    /\ fk_rows = <<>>
    /\ fk_seen = <<>>
    /\ fk_map = <<>>
    /\ \E S \in SUBSET RenderEntries : \E d \in Orders(S) : \E f \in RenderFkLists :
         result = Returned(d, f)
    /\ failure = None
    /\ diagram = <<>>
    /\ exit_code = None
    /\ artifact = NoFile
    /\ response = None
    /\ other_map = <<>>
    /\ other_diagram = <<>>
    /\ reqs = <<>>
    /\ loop = None
    /\ ran_on = {}

\* build_diagram(tables, foreign_keys)
Render ==
    /\ pc = "render"
    /\ diagram' = BuildDiagram(result.tables, result.foreign_keys)
    /\ pc' = "reinsert"
    /\ UNCHANGED <<catalog, args, schema_filter, table_filter, conn, acquired,
                   released, queries, tables, allowed_keys, fk_rows, fk_seen, fk_map,
                   result, failure, caller, exit_code, artifact, response, other_map,
                   other_diagram,
                   reqs, loop, ran_on>>

\* the same mapping built in any other insertion order
Reinsert ==
    /\ pc = "reinsert"
    /\ other_map' \in Orders(Range(result.tables))
    /\ pc' = "render_other"
    /\ UNCHANGED <<catalog, args, schema_filter, table_filter, conn, acquired,
                   released, queries, tables, allowed_keys, fk_rows, fk_seen, fk_map,
                   result, failure, caller, diagram, exit_code, artifact, response,
                   other_diagram,
                   reqs, loop, ran_on>>

\* build_diagram(other_map, foreign_keys)
RenderOther ==
    /\ pc = "render_other"
    /\ other_diagram' = BuildDiagram(other_map, result.foreign_keys)
    /\ pc' = "rendered"
    /\ UNCHANGED <<catalog, args, schema_filter, table_filter, conn, acquired,
                   released, queries, tables, allowed_keys, fk_rows, fk_seen, fk_map,
                   result, failure, caller, diagram, exit_code, artifact, response,
                   other_map,
                   reqs, loop, ran_on>>

NextRender == Render \/ Reinsert \/ RenderOther

SpecRender == InitRender /\ [][NextRender]_vars

-----------------------------------------------------------------------------
(* src/routers/erd.py: the web routes, one server process *)

\* the JSON responses
SourceResponse(status, mermaid) == [route |-> "source", status |-> status, mermaid |-> mermaid]
RegenerateResponse(status) == [route |-> "regenerate", status |-> status]

\* lines 54-60: GET /erd/source
ErdSource ==
    /\ caller = "regenerate"
    /\ loop = None
    /\ LET mermaid_source == ReadDiagram(artifact)
       IN  response' = Some(IF IsNone(mermaid_source)
                            THEN SourceResponse(404, None)
                            ELSE SourceResponse(200, mermaid_source))
    /\ UNCHANGED <<catalog, args, schema_filter, table_filter, pc, conn, acquired,
                   released, queries, tables, allowed_keys, fk_rows, fk_seen, fk_map,
                   result, failure, caller, diagram, exit_code, artifact, other_map,
                   other_diagram,
                   reqs, loop, ran_on>>

\* lines 71-72: POST /erd/regenerate dispatches fetch_schema() with no filter
RegenerateStart ==
    /\ pc = "idle"
    /\ schema_filter' = None
    /\ table_filter' = None
    /\ conn' = "none"
    /\ acquired' = 0
    /\ released' = 0
    /\ queries' = <<>>
    /\ tables' = <<>>
    /\ allowed_keys' = {}
    /\ fk_rows' = <<>>
    /\ fk_seen' = <<>>
    /\ fk_map' = <<>>
    /\ result' = Pending
    /\ failure' = None
    /\ pc' = "connect"
    /\ UNCHANGED <<catalog, args, caller, diagram, exit_code, artifact, response,
                   other_map, other_diagram,
                   reqs, loop, ran_on>>

\* RegenerateWrite appending to the file instead of overwriting it
RegenerateAppends ==
    /\ pc = "fetch_done" /\ caller = "regenerate"
    /\ result.kind = "returned"
    /\ diagram' = BuildDiagram(result.tables, result.foreign_keys)
    /\ artifact' = File((IF artifact.exists THEN artifact.text ELSE <<>>)
                        \o diagram' \o <<NL>>)
    /\ response' = Some(RegenerateResponse(200))
    /\ pc' = "idle"
    /\ UNCHANGED <<catalog, args, schema_filter, table_filter, conn, acquired,
                   released, queries, tables, allowed_keys, fk_rows, fk_seen, fk_map,
                   result, failure, caller, exit_code, other_map, other_diagram,
                   reqs, loop, ran_on>>

\* lines 73-76: the awaited call returned: render, write, {"ok": true}
RegenerateWrite ==
    /\ pc = "fetch_done" /\ caller = "regenerate"
    /\ result.kind = "returned"
    /\ diagram' = BuildDiagram(result.tables, result.foreign_keys)
    /\ artifact' = ArtifactOf(diagram')
    /\ response' = Some(RegenerateResponse(200))
    /\ pc' = "idle"
    /\ UNCHANGED <<catalog, args, schema_filter, table_filter, conn, acquired,
                   released, queries, tables, allowed_keys, fk_rows, fk_seen, fk_map,
                   result, failure, caller, exit_code, other_map, other_diagram,
                   reqs, loop, ran_on>>

\* line 72: the awaited call raised; the exception leaves the handler and
\* the framework answers 500
RegenerateFails ==
    /\ pc = "fetch_done" /\ caller = "regenerate"
    /\ result.kind = "raised"
    /\ response' = Some(RegenerateResponse(500))
    /\ pc' = "idle"
    /\ UNCHANGED <<catalog, args, schema_filter, table_filter, conn, acquired,
                   released, queries, tables, allowed_keys, fk_rows, fk_seen, fk_map,
                   result, failure, caller, diagram, exit_code, artifact, other_map,
                   other_diagram,
                   reqs, loop, ran_on>>

\* the catalogs the database moves through between regenerations
WebCatalogs ==
    {[tables |-> {}, fks |-> {}, indexes |-> {}],
     [tables |-> {T_dbo_tag}, fks |-> {}, indexes |-> {}],
     [tables |-> {T_dbo_Item, T_dbo_tag}, fks |-> {FK_1}, indexes |-> {{s_a, s_b}}]}

\* the schema is changed by its owner while no regeneration runs
CatalogChanges ==
    /\ pc = "idle"
    /\ catalog' \in WebCatalogs \ {catalog}
    /\ UNCHANGED <<args, schema_filter, table_filter, pc, conn, acquired, released,
                   queries, tables, allowed_keys, fk_rows, fk_seen, fk_map, result,
                   failure, caller, diagram, exit_code, artifact, response, other_map,
                   other_diagram,
                   reqs, loop, ran_on>>

InitWeb ==
    /\ catalog \in WebCatalogs
    /\ args = [schema |-> None, tables |-> None]
    /\ schema_filter = None
    /\ table_filter = None
    /\ pc = "idle"
    /\ caller = "regenerate"
    /\ conn = "none"
    /\ acquired = 0
    /\ released = 0
    /\ queries = <<>>
    /\ tables = <<>>
    /\ allowed_keys = {}
    /\ fk_rows = <<>>
    /\ fk_seen = <<>>
    /\ fk_map = <<>>
    /\ result = Pending
    /\ failure = None
    /\ diagram = <<>>
    /\ exit_code = None
    /\ artifact = NoFile
    /\ response = None
    /\ other_map = <<>>
    /\ other_diagram = <<>>
    /\ reqs = <<>>
    /\ loop = None
    /\ ran_on = {}

Web == ErdSource \/ RegenerateStart \/ RegenerateWrite \/ RegenerateFails \/ CatalogChanges

NextWeb == FetchSchema \/ Web

SpecWeb == InitWeb /\ [][NextWeb]_vars

-----------------------------------------------------------------------------
(* main.py and src/routers/erd.py: a CLI run, or the routes of the web UI  *)

InitCalls == Init \/ InitWeb

NextCalls == Next \/ NextWeb

SpecCalls == InitCalls /\ [][NextCalls]_vars

-----------------------------------------------------------------------------
(* src/routers/erd.py: one server process, requests in flight together *)

MaxRequests == 2
Requests == 1..MaxRequests

\* lines 235-260 of fetch_schema: the loop over the FK rows, to its end
RECURSIVE FkLoop(_, _, _, _, _)
FkLoop(d, m, rows, tf, allowed) ==
    IF rows = <<>> THEN <<d, m>>
    ELSE LET row == Head(rows)
         IN  IF SkipFkRow(row, tf, allowed)
             THEN FkLoop(d, m, Tail(rows), tf, allowed)
             ELSE FkLoop(BackFill(d, row), AddFkRow(m, row), Tail(rows), tf, allowed)

\* fetch_schema(schema_filter, table_filter) as one call: what it may return
FetchSchemaReturns(cat, sf, tf) ==
    {LET t1 == BuildTables(<<>>, FilterTableRows(trows, tf))
         t2 == AddColumns(t1, crows)
         end == FkLoop(t2, <<>>, frows, tf, Range(DictKeys(t1)))
     IN  Returned(end[1], DictValues(end[2])) :
       trows \in TableQuery(cat, sf), crows \in ColumnQuery(cat, sf),
       frows \in FkQuery(cat, sf)}

\* fetch_schema() as the regenerate route calls it: a snapshot or an error
FetchSchemaCall(cat) ==
    FetchSchemaReturns(cat, None, None) \cup {Raised(e) : e \in DriverErrors}

NewRequest == [pc |-> "new", result |-> Pending, diagram |-> <<>>]
Step(step, thread) == [step |-> step, thread |-> thread]

\* lines 71-72: the request arrives, fetch_schema is handed to the executor
\* and the coroutine waits for it
RegenerateReceive(r) ==
    /\ loop = None
    /\ reqs[r].pc = "new"
    /\ reqs' = [reqs EXCEPT ![r].pc = "waiting"]
    /\ UNCHANGED <<catalog, args, schema_filter, table_filter, pc, conn, acquired,
                   released, queries, tables, allowed_keys, fk_rows, fk_seen, fk_map,
                   result, failure, caller, diagram, exit_code, artifact, response,
                   other_map, other_diagram, loop, ran_on>>

\* line 72 with fetch_schema called in the coroutine itself
FetchOnLoop(r) ==
    /\ loop = None
    /\ reqs[r].pc = "waiting"
    /\ \E res \in FetchSchemaCall(catalog) :
         reqs' = [reqs EXCEPT ![r].pc = "resolved", ![r].result = res]
    /\ ran_on' = ran_on \cup {Step("introspect", "loop")}
    /\ UNCHANGED <<catalog, args, schema_filter, table_filter, pc, conn, acquired,
                   released, queries, tables, allowed_keys, fk_rows, fk_seen, fk_map,
                   result, failure, caller, diagram, exit_code, artifact, response,
                   other_map, other_diagram, loop>>

\* line 72: a thread of the executor runs fetch_schema and resolves the future
WorkerFetch(r) ==
    /\ reqs[r].pc = "waiting"
    /\ \E res \in FetchSchemaCall(catalog) :
         reqs' = [reqs EXCEPT ![r].pc = "resolved", ![r].result = res]
    /\ ran_on' = ran_on \cup {Step("introspect", "worker")}
    /\ UNCHANGED <<catalog, args, schema_filter, table_filter, pc, conn, acquired,
                   released, queries, tables, allowed_keys, fk_rows, fk_seen, fk_map,
                   result, failure, caller, diagram, exit_code, artifact, response,
                   other_map, other_diagram, loop>>

\* line 72: the await re-raises what fetch_schema raised; the route answers 500
RegenerateRaises(r) ==
    /\ loop = None
    /\ reqs[r].pc = "resolved"
    /\ reqs[r].result.kind = "raised"
    /\ reqs' = [reqs EXCEPT ![r].pc = "failed"]
    /\ response' = Some(RegenerateResponse(500))
    /\ UNCHANGED <<catalog, args, schema_filter, table_filter, pc, conn, acquired,
                   released, queries, tables, allowed_keys, fk_rows, fk_seen, fk_map,
                   result, failure, caller, diagram, exit_code, artifact,
                   other_map, other_diagram, loop, ran_on>>

\* lines 72-73: the coroutine resumes with the snapshot and renders it
RegenerateRender(r) ==
    /\ loop = None
    /\ reqs[r].pc = "resolved"
    /\ reqs[r].result.kind = "returned"
    /\ loop' = Some(r)
    /\ reqs' = [reqs EXCEPT ![r].pc = "open",
                            ![r].diagram = BuildDiagram(reqs[r].result.tables,
                                                        reqs[r].result.foreign_keys)]
    /\ ran_on' = ran_on \cup {Step("render", "loop")}
    /\ UNCHANGED <<catalog, args, schema_filter, table_filter, pc, conn, acquired,
                   released, queries, tables, allowed_keys, fk_rows, fk_seen, fk_map,
                   result, failure, caller, diagram, exit_code, artifact, response,
                   other_map, other_diagram>>

\* RegenerateOpen with the write awaited elsewhere: the coroutine gives the
\* event loop back between the truncation and the write
RegenerateOpenYields(r) ==
    /\ loop = Some(r)
    /\ reqs[r].pc = "open"
    /\ artifact' = File(<<>>)
    /\ reqs' = [reqs EXCEPT ![r].pc = "write"]
    /\ loop' = None
    /\ ran_on' = ran_on \cup {Step("write", "loop")}
    /\ UNCHANGED <<catalog, args, schema_filter, table_filter, pc, conn, acquired,
                   released, queries, tables, allowed_keys, fk_rows, fk_seen, fk_map,
                   result, failure, caller, diagram, exit_code, response,
                   other_map, other_diagram>>

\* lines 74-75: write_text opens the file for writing, which truncates it
RegenerateOpen(r) ==
    /\ loop = Some(r)
    /\ reqs[r].pc = "open"
    /\ artifact' = File(<<>>)
    /\ reqs' = [reqs EXCEPT ![r].pc = "write"]
    /\ ran_on' = ran_on \cup {Step("write", "loop")}
    /\ UNCHANGED <<catalog, args, schema_filter, table_filter, pc, conn, acquired,
                   released, queries, tables, allowed_keys, fk_rows, fk_seen, fk_map,
                   result, failure, caller, diagram, exit_code, response,
                   other_map, other_diagram, loop>>

\* lines 75-76: write_text writes the text and closes; the route answers
RegenerateWriteText(r) ==
    /\ loop = Some(r)
    /\ reqs[r].pc = "write"
    /\ artifact' = ArtifactOf(reqs[r].diagram)
    /\ reqs' = [reqs EXCEPT ![r].pc = "done"]
    /\ response' = Some(RegenerateResponse(200))
    /\ loop' = None
    /\ UNCHANGED <<catalog, args, schema_filter, table_filter, pc, conn, acquired,
                   released, queries, tables, allowed_keys, fk_rows, fk_seen, fk_map,
                   result, failure, caller, diagram, exit_code,
                   other_map, other_diagram, ran_on>>

RegenerateRequest(r) ==
    \/ RegenerateReceive(r)
    \/ WorkerFetch(r)
    \/ RegenerateRaises(r)
    \/ RegenerateRender(r)
    \/ RegenerateOpen(r)
    \/ RegenerateWriteText(r)

\* the schema is changed by its owner at any moment
CatalogChangesAnyTime ==
    /\ caller = "regenerate"
    /\ catalog' \in WebCatalogs \ {catalog}
    /\ UNCHANGED <<args, schema_filter, table_filter, pc, conn, acquired, released,
                   queries, tables, allowed_keys, fk_rows, fk_seen, fk_map, result,
                   failure, caller, diagram, exit_code, artifact, response, other_map,
                   other_diagram, reqs, loop, ran_on>>

InitServer ==
    /\ catalog \in WebCatalogs
    /\ args = [schema |-> None, tables |-> None]
    /\ schema_filter = None
    /\ table_filter = None
    /\ pc = "serving"
    /\ caller = "regenerate"
    /\ conn = "none"
    /\ acquired = 0
    /\ released = 0
    /\ queries = <<>>
    /\ tables = <<>>
    /\ allowed_keys = {}
    /\ fk_rows = <<>>
    /\ fk_seen = <<>>
    /\ fk_map = <<>>
    /\ result = Pending
    /\ failure = None
    /\ diagram = <<>>
    /\ exit_code = None
    /\ artifact = NoFile
    /\ response = None
    /\ other_map = <<>>
    /\ other_diagram = <<>>
    /\ reqs = [r \in Requests |-> NewRequest]
    /\ loop = None
    /\ ran_on = {}

NextServer ==
    \/ ErdSource
    \/ CatalogChangesAnyTime
    \/ \E r \in Requests : RegenerateRequest(r)

SpecServer == InitServer /\ [][NextServer]_vars

-----------------------------------------------------------------------------
(* Properties *)

\* fetch_schema has returned or raised
FetchCompleted == pc \in {"fetch_done", "write", "exited", "idle"}

\* C1: every Relationship fetch_schema returns has its child key and its
\* parent key in the returned table map, whatever the two filters are.
C1_EndpointsInTableMap ==
    result.kind = "returned" =>
        \A i \in 1..Len(result.foreign_keys) :
            LET fk == result.foreign_keys[i]
            IN  /\ DictHas(result.tables, Key(fk.from_schema, fk.from_table))
                /\ DictHas(result.tables, Key(fk.to_schema, fk.to_table))

\* every column of d flagged is_foreign_key has a Relationship in fks whose
\* child is the column's table and whose from_columns hold the column's name
FlaggedColumnsCovered(d, fks) ==
    \A i \in 1..Len(d) : \A j \in 1..Len(d[i].value.columns) :
        d[i].value.columns[j].is_foreign_key =>
            \E k \in 1..Len(fks) :
                /\ fks[k].from_schema = d[i].value.schema
                /\ fks[k].from_table = d[i].value.name
                /\ d[i].value.columns[j].name \in Range(fks[k].from_columns)

\* C2: in every state of assembly and in the returned snapshot, a column
\* flagged is_foreign_key belongs to a table that is the child of some
\* Relationship whose from_columns contain the column's name.
C2_FlaggedColumnHasRelationship ==
    /\ FlaggedColumnsCovered(tables, DictValues(fk_map))
    /\ result.kind = "returned" =>
           FlaggedColumnsCovered(result.tables, result.foreign_keys)

\* the catalog's constraints named as the Relationship fk
ConstraintsNamed(n) == {f \in catalog.fks : f.name = n}

\* C3: a returned Relationship has is_unique true exactly when the child
\* table has a unique index whose column set equals the set of the
\* constraint's referencing columns (stated for the constraints whose name
\* no other constraint of the catalog shares).
C3_IsUniqueIffExactIndex ==
    result.kind = "returned" =>
        \A i \in 1..Len(result.foreign_keys) :
            LET fk == result.foreign_keys[i]
            IN  \A f \in ConstraintsNamed(fk.constraint_name) :
                    Cardinality(ConstraintsNamed(fk.constraint_name)) = 1 =>
                        (fk.is_unique <=>
                            \E ui \in UniqueIndexes(catalog, f.schema, f.table) :
                                ui = FkColumns(f))

\* the rows of the FK query consumed so far that line 239 did not skip
KeptFkRows ==
    LET Kept(r) == ~SkipFkRow(r, table_filter, allowed_keys)
    IN  SelectSeq(fk_seen, Kept)
KeptFkRowsNamed(n) ==
    LET Named(r) == r.constraint_name = n
    IN  SelectSeq(KeptFkRows, Named)

\* C4: after any consumed sequence of FK rows there is exactly one
\* Relationship per distinct constraint name among the non-skipped rows, and
\* its from_columns and to_columns are the from_column and to_column of those
\* rows, pairwise and in row order.
C4_OneRelationshipPerConstraint ==
    LET names == {r.constraint_name : r \in Range(KeptFkRows)}
    IN  /\ {fk_map[i].value.constraint_name : i \in 1..Len(fk_map)} = names
        /\ Len(fk_map) = Cardinality(names)
        /\ \A i \in 1..Len(fk_map) :
              LET fk == fk_map[i].value
                  rows == KeptFkRowsNamed(fk.constraint_name)
              IN  /\ Len(fk.from_columns) = Len(fk.to_columns)
                  /\ fk.from_columns = [k \in 1..Len(rows) |-> rows[k].from_column]
                  /\ fk.to_columns = [k \in 1..Len(rows) |-> rows[k].to_column]
        /\ result.kind = "returned" => result.foreign_keys = DictValues(fk_map)

\* a composite constraint came out as one Relationship whose columns are in
\* ordinal order (b, a), not in name order
C4_Witness ==
    /\ result.kind = "returned"
    /\ \E i \in 1..Len(result.foreign_keys) :
          /\ result.foreign_keys[i].from_columns = <<s_b, s_a>>
          /\ result.foreign_keys[i].to_columns = <<s_id, s_k>>

IsPrefix(a, b) == Len(a) <= Len(b) /\ a = SubSeq(b, 1, Len(a))

\* C5: a call acquires at most one connection and, once it has returned or
\* raised, has released every connection it acquired exactly once; the
\* queries run in the order tables, columns, foreign keys, each on the one
\* connection, and a returned snapshot has run all three.
C5_ConnectionReleasedOnce ==
    /\ acquired <= 1
    /\ released <= acquired
    /\ FetchCompleted => (released = acquired /\ conn # "open")
    /\ IsPrefix(queries, <<"tables", "columns", "fks">>)
    /\ queries # <<>> => acquired = 1
    /\ result.kind = "returned" => (acquired = 1 /\ queries = <<"tables", "columns", "fks">>)

\* the third query failed and the connection was closed once
C5_Witness ==
    /\ pc = "fetch_done"
    /\ result.kind = "raised"
    /\ queries = <<"tables", "columns", "fks">>
    /\ acquired = 1 /\ released = 1 /\ conn = "closed"

\* C6: once the connection attempt or a query has failed, the call ends in
\* the driver's error and returns no snapshot, and runs nothing further; no
\* connection attempt or query runs twice.
C6_FailureGivesNoSnapshot ==
    /\ ~IsNone(failure) => result = Raised(Val(failure))
    /\ ~IsNone(failure) => pc \notin {"connect", "cursor", "q_tables", "q_columns", "q_fks", "fk_loop", "write"}
    /\ acquired <= 1
    /\ \A i, j \in 1..Len(queries) : queries[i] = queries[j] => i = j

\* the columns query failed after tables were built: they are not returned
C6_Witness ==
    /\ pc = "fetch_done"
    /\ ~IsNone(failure)
    /\ queries = <<"tables", "columns">>
    /\ tables # <<>>
    /\ result.kind = "raised"

\* the entity blocks of the text, for the keys in the order ks
RECURSIVE BlocksInOrder(_, _)
BlocksInOrder(d, ks) ==
    IF ks = <<>> THEN <<>>
    ELSE EntityBlock(DictGet(d, Head(ks))) \o BlocksInOrder(d, Tail(ks))

\* C7: the text build_diagram returns does not depend on the insertion order
\* of the table map, and its entity blocks come in increasing order of the
\* qualified key.
C7_RenderIgnoresInsertionOrder ==
    pc = "rendered" =>
        /\ diagram = other_diagram
        /\ \E ks \in Orders(Range(DictKeys(result.tables))) :
              /\ \A i, j \in 1..Len(ks) : i < j => StrLess(ks[i], ks[j])
              /\ LET blocks == BlocksInOrder(result.tables, ks)
                     lines == SplitLines(diagram)
                 IN  SubSeq(lines, 3, 2 + Len(blocks)) = blocks

\* three tables inserted in an order that is neither sorted nor the order of
\* the second mapping
C7_Witness ==
    /\ pc = "rendered"
    /\ Len(result.tables) = 3
    /\ other_map # result.tables
    /\ StrLess(result.tables[2].key, result.tables[1].key)
    /\ result.foreign_keys # <<>>

DropFirstLine(t) ==
    LET P == {i \in 1..Len(t) : t[i] = NL}
    IN  IF P = {} THEN <<>>
        ELSE SubSeq(t, (CHOOSE i \in P : \A k \in P : i <= k) + 1, Len(t))
DropLastLine(t) ==
    LET P == {i \in 1..Len(t) : t[i] = NL}
    IN  IF P = {} THEN <<>>
        ELSE SubSeq(t, 1, (CHOOSE i \in P : \A k \in P : i >= k) - 1)

\* a step in which GET /erd/source answers
SourceAnswers == response' # response /\ ~IsNone(response') /\ Val(response').route = "source"

\* C9: the stored artifact is the most recent render followed by one
\* newline; a source read answers 404 while no artifact exists and
\* otherwise the most recent render without its first and last line.
C9_ReadReturnsLatestRender ==
    [][/\ artifact'.exists => artifact'.text = diagram' \o <<NL>>
       /\ SourceAnswers =>
             response' = Some(IF artifact.exists
                              THEN SourceResponse(200, Some(DropLastLine(DropFirstLine(diagram))))
                              ELSE SourceResponse(404, None))]_vars

\* a read after the regeneration of a catalog with a constraint
C9_Witness ==
    /\ artifact.exists
    /\ result.kind = "returned"
    /\ Len(result.foreign_keys) = 1
    /\ response = Some(SourceResponse(200, Some(DropLastLine(DropFirstLine(diagram)))))
    /\ diagram # <<>>

\* the catalog tables the filters admit: the schema filter of the queries
\* and, when an allow-list is given, a name equal to an entry ignoring case
AdmittedTables ==
    {t \in catalog.tables :
        /\ SchemaMatches(schema_filter, t.schema)
        /\ \/ IsNone(table_filter)
           \/ \E n \in Range(Val(table_filter)) : Lower(n) = Lower(t.name)}

\* C10: the returned table map holds exactly the catalog tables whose name
\* equals an allow-list entry ignoring case (all of them without an
\* allow-list), each with its catalog columns in catalog order.
C10_TableMapMatchesAllowList ==
    result.kind = "returned" =>
        /\ Range(DictKeys(result.tables)) = {Key(t.schema, t.name) : t \in AdmittedTables}
        /\ \A t \in AdmittedTables :
              DictHas(result.tables, Key(t.schema, t.name)) =>
                  LET cols == DictGet(result.tables, Key(t.schema, t.name)).columns
                  IN  /\ Len(cols) = Len(t.columns)
                      /\ \A i \in 1..Len(cols) :
                            /\ cols[i].name = t.columns[i].name
                            /\ cols[i].data_type = t.columns[i].type
                            /\ cols[i].is_nullable = t.columns[i].nullable
                            /\ cols[i].is_primary_key = (t.columns[i].name \in t.pk)

\* the line the renderer is to emit for one relationship: four spaces, the
\* parent table, the notation, the child table, then the quoted label
ExpectedRelationshipLine(fk) ==
    LET notation == IF fk.is_unique THEN <<"|", "|", "-", "-", "|", "|">>
                                    ELSE <<"|", "|", "-", "-", "o", "{">>
        label == Join(<<",", " ">>, fk.from_columns)
    IN  <<" ", " ", " ", " ">>
        \o Join(<<" ">>, <<fk.to_table, notation, fk.from_table, <<":">>,
                           <<"\"">> \o label \o <<"\"">>>>)

\* C11: between the blank separator line and the closing fence the text
\* holds exactly one line per relationship, in the order of the given list,
\* each naming the parent table first and the child table second, with
\* ||--|| for a unique relationship and ||--o{ otherwise, labelled with the
\* child column names joined by ", " in their stored order.
C11_RelationshipLinesInListOrder ==
    pc = "rendered" =>
        LET lines == SplitLines(diagram)
            fks == result.foreign_keys
            n == Len(fks)
            last == Len(lines)
        IN  /\ last >= n + 4
            /\ lines[last] = s_fence
            /\ {i \in 1..last : lines[i] = <<>>} = {last - n - 1}
            /\ \A i \in 1..n :
                  lines[last - n - 1 + i] = ExpectedRelationshipLine(fks[i])

\* two relationships given in decreasing order of constraint name: a unique
\* one with one column, then a non-unique one whose columns are not sorted
C11_Witness ==
    /\ pc = "rendered"
    /\ Len(result.foreign_keys) = 2
    /\ result.foreign_keys[1].is_unique
    /\ ~result.foreign_keys[2].is_unique
    /\ StrLess(result.foreign_keys[2].constraint_name,
               result.foreign_keys[1].constraint_name)
    /\ result.foreign_keys[2].from_columns = <<s_b, s_a>>
    /\ result.foreign_keys[1].from_table # result.foreign_keys[1].to_table

\* C12 as stated: the introspection, the render and the file write of a web
\* regeneration all run in the worker context, none on the event-loop thread.
C12_WholeSequenceOnWorker ==
    \A e \in ran_on : e.thread = "worker"

\* C12, amended: of a web regeneration only the introspection runs in the
\* worker context; the route waits for its outcome before it goes on, and the
\* render and the file write then run on the event-loop thread.
C12_OnlyIntrospectionOnWorker ==
    /\ \A e \in ran_on : (e.thread = "worker") <=> (e.step = "introspect")
    /\ \A r \in DOMAIN reqs :
          reqs[r].pc \in {"open", "write", "done", "failed"} =>
              reqs[r].result.kind # "pending"

\* a regeneration has gone through its three steps
C12_Witness ==
    /\ \E r \in DOMAIN reqs : reqs[r].pc = "done"
    /\ {e.step : e \in ran_on} = {"introspect", "render", "write"}

\* the complete renders of the snapshots the regenerate requests received
SnapshotRenders(done) ==
    {BuildDiagram(reqs[r].result.tables, reqs[r].result.foreign_keys) :
       r \in {q \in DOMAIN reqs : /\ reqs[q].result.kind = "returned"
                                  /\ reqs[q].pc \in done}}

\* C13: with regenerate requests and source reads of one server process
\* interleaved in every way, a source read answers 404 or the inner text of
\* the complete render of one request's snapshot, and while no regeneration
\* is in flight the artifact is absent (none has written) or is the complete
\* render of the snapshot of one request that has written, plus a newline.
C13_ReadsAndArtifactAreWholeRenders ==
    /\ (~IsNone(response) /\ Val(response).route = "source") =>
          \/ Val(response) = SourceResponse(404, None)
          \/ \E d \in SnapshotRenders({"resolved", "open", "write", "done"}) :
                Val(response) = SourceResponse(200, Some(DropLastLine(DropFirstLine(d))))
    /\ (\A r \in DOMAIN reqs : reqs[r].pc \in {"new", "done", "failed"}) =>
          IF \E r \in DOMAIN reqs : reqs[r].pc = "done"
          THEN \E d \in SnapshotRenders({"done"}) : artifact = File(d \o <<NL>>)
          ELSE artifact = NoFile

\* two regenerations of different snapshots have both written, and a read
\* has answered since
C13_Witness ==
    /\ \A r \in DOMAIN reqs : reqs[r].pc = "done"
    /\ Cardinality(SnapshotRenders({"done"})) = 2
    /\ ~IsNone(response)
    /\ Val(response).route = "source"
    /\ Val(response).status = 200

\* C14: no step of a call changes the stored artifact unless the call's
\* introspection has returned a snapshot and, in the CLI, the filtered table
\* map is not empty: a CLI run or a web regeneration whose introspection
\* fails, and a CLI run with an empty table map, leave the file as it was.
C14_FailedCallLeavesArtifact ==
    [][artifact' # artifact =>
          /\ result.kind = "returned"
          /\ (caller = "main" => result.tables # <<>>)]_vars

\* a CLI run whose introspection failed has exited and the file written by
\* an earlier run is still there
C14_Witness ==
    /\ caller = "main"
    /\ pc = "exited"
    /\ exit_code = Some(1)
    /\ result.kind = "raised"
    /\ artifact = ArtifactOf(OldDiagram)

=============================================================================
